---- MODULE Spec2Model ----
(***************************************************************************)
(* Model of the quadratic-voting pallet                                    *)
(* (substrate-node-template/pallets/voting/src/lib.rs).                    *)
(*                                                                         *)
(* The state is the pallet's three storage items (RegisteredVoters,        *)
(* Proposals, AyeVotes), the Currency ledger it calls (free and reserved   *)
(* balance per account), the block number, and a record of the last call   *)
(* (its arguments, its result and the events it deposited).  Every         *)
(* dispatchable is one action: the body is an operator from the pre-state  *)
(* to an outcome [res, st, ev], and Dispatch commits or discards it.       *)
(***************************************************************************)
EXTENDS Integers, Sequences, FiniteSets, TLC

(***************************************************************************)
(* Bounds of the model.                                                    *)
(***************************************************************************)
MaxProposals == 2       \* create_proposal is explored up to this many proposals
MaxBlock == 2           \* the block number is explored in 1..MaxBlock
VotingPeriod == 1       \* T::VotingPeriod, a runtime configuration value
MaxBatch == 2           \* freely composed batches have at most this many items
MaxRepeat == 12         \* repeated-item batches repeat their item up to this often
BalanceBits == 7        \* width of the unsigned Balance type in the model

Accounts == {1, 2}
Hashes == {"h"}
Votes == {"Aye", "Nay", "Abstain"}

MaxBalance == 2 ^ BalanceBits - 1
Balances == 0 .. MaxBalance

\* The endowment of register_voter: "let initial_balance_without_fee = 100".
InitialBalanceWithoutFee == 100

\* Inputs the calls are explored with.
RegisterFees == {0, 5, 101}
StartFees == {0, 10}
ReserveAmounts == {0, 70}
UnreserveAmounts == {0, 70}
\* The (amount, vote) pairs of the items freely composed batches are made of.
BatchItemKinds == {<<0, "Aye">>, <<25, "Aye">>, <<25, "Nay">>, <<0, "Abstain">>}
ProposalIndexes == 1 .. (MaxProposals + 1)
\* Free balances at genesis: account 1 is endowed before the pallet touches it.
GenesisFree == [a \in Accounts |-> IF a = 1 THEN 7 ELSE 0]

Root == [kind |-> "Root", who |-> 0]
Signed(a) == [kind |-> "Signed", who |-> a]
Origins == {Root} \cup {Signed(a) : a \in Accounts}

VARIABLES
    RegisteredVoters,   \* set of accounts with a RegisteredVoters entry
    Proposals,          \* function 1..count -> Proposal record
    AyeVotes,           \* function (subset of index x account) -> Balance
    free,               \* Currency: free balance per account
    reserved,           \* Currency: reserved balance per account
    block_number,       \* frame_system block number
    last                \* the last call: arguments, result, events

vars == <<RegisteredVoters, Proposals, AyeVotes, free, reserved, block_number, last>>

\* The storage the pallet reads and writes, as one value.
Store == [voters |-> RegisteredVoters, props |-> Proposals, aye |-> AyeVotes,
          free |-> free, reserved |-> reserved]

(***************************************************************************)
(* integer_sqrt::IntegerSquareRoot: floor of the square root, found one    *)
(* result bit at a time from the most significant pair of bits down.       *)
(***************************************************************************)
RECURSIVE SqrtShift(_, _)
SqrtShift(n, shift) ==
    IF n \div (2 ^ shift) = 0 THEN shift - 2 ELSE SqrtShift(n, shift + 2)

RECURSIVE SqrtLoop(_, _, _)
SqrtLoop(n, shift, result) ==
    LET r2 == 2 * result
        candidate == r2 + 1
        r3 == IF candidate * candidate <= n \div (2 ^ shift) THEN candidate ELSE r2
    IN  IF shift = 0 THEN r3 ELSE SqrtLoop(n, shift - 2, r3)

integer_sqrt(n) == IF n = 0 THEN 0 ELSE SqrtLoop(n, SqrtShift(n, 2), 0)

(***************************************************************************)
(* Storage iteration order.  Proposals is a map hashed with                *)
(* Blake2_128Concat, and iter() walks the keys in the lexicographic order  *)
(* of blake2_128(SCALE(index)) ++ SCALE(index).  The first byte of the     *)
(* digest of the u32 indices 1..8 is                                       *)
(*   1:d8  2:75  3:de  4:1c  5:96  6:48  7:99  8:be                        *)
(* so iteration visits 4, 6, 2, 5, 7, 8, 1, 3.  IterRank(i) is the         *)
(* position of index i in that walk.                                       *)
(***************************************************************************)
IterRank(i) ==
    CASE i = 4 -> 1 [] i = 6 -> 2 [] i = 2 -> 3 [] i = 5 -> 4
      [] i = 7 -> 5 [] i = 8 -> 6 [] i = 1 -> 7 [] i = 3 -> 8
      [] OTHER -> 8 + i

\* The keys of a set of proposal indexes in iteration order, as a sequence.
RECURSIVE IterSeq(_)
IterSeq(S) ==
    IF S = {} THEN <<>>
    ELSE LET first == CHOOSE i \in S : \A j \in S : IterRank(i) <= IterRank(j)
         IN  <<first>> \o IterSeq(S \ {first})

(***************************************************************************)
(* Helpers of impl Pallet (lib.rs 515-612).                                *)
(***************************************************************************)
is_voter_registered(s, who) == who \in s.voters

is_proposal_registered(s, i) == i \in DOMAIN s.props

is_proposal_active_always(s, i) == TRUE

is_proposal_active(s, i) ==
    IF i \in DOMAIN s.props
    THEN s.props[i].status = "InProgress" /\ is_proposal_registered(s, i)
    ELSE FALSE

voter_has_voted_never(s, i, who) == FALSE

voter_has_voted(s, i, who) == <<i, who>> \in DOMAIN s.aye

get_aye_votes_balance(s, i, who) ==
    IF <<i, who>> \in DOMAIN s.aye THEN s.aye[<<i, who>>] ELSE 0

get_voter_balance_total(s, who) == s.free[who] + s.reserved[who]

\* total_balance - reserved_balance, with total_balance = free + reserved.
get_voter_balance(s, who) == (s.free[who] + s.reserved[who]) - s.reserved[who]

\* Sum of the aye votes stored under one proposal (iter_prefix ... sum()).
RECURSIVE SumVotes(_, _)
SumVotes(aye, keys) ==
    IF keys = {} THEN 0
    ELSE LET k == CHOOSE x \in keys : TRUE
         IN  aye[k] + SumVotes(aye, keys \ {k})

total_votes(s, i) == SumVotes(s.aye, {k \in DOMAIN s.aye : k[1] = i})

\* The scan with `>=` in place of `>`.
RECURSIVE WinnerLoopLastMax(_, _, _, _)
WinnerLoopLastMax(s, order, max_votes, winner) ==
    IF order = <<>> THEN winner
    ELSE LET i == Head(order)
             t == total_votes(s, i)
         IN  IF t >= max_votes /\ t > 0
             THEN WinnerLoopLastMax(s, Tail(order), t, i)
             ELSE WinnerLoopLastMax(s, Tail(order), max_votes, winner)

RECURSIVE WinnerLoop(_, _, _, _)
WinnerLoop(s, order, max_votes, winner) ==
    IF order = <<>> THEN winner
    ELSE LET i == Head(order)
             t == total_votes(s, i)
         IN  IF t > max_votes
             THEN WinnerLoop(s, Tail(order), t, i)
             ELSE WinnerLoop(s, Tail(order), max_votes, winner)

get_winner(s) == WinnerLoop(s, IterSeq(DOMAIN s.props), 0, 0)

update_proposal_status_kept(s, i) == s

\* The update also rewriting the end block.
update_proposal_status_and_end(s, i) ==
    [s EXCEPT !.props = [@ EXCEPT ![i] = [@ EXCEPT !.status = "Completed",
                                                   !.end_block = 0]]]

\* The storage after update_proposal_status_to_completed(i), i registered.
update_proposal_status_to_completed(s, i) ==
    [s EXCEPT !.props = [@ EXCEPT ![i] = [@ EXCEPT !.status = "Completed"]]]

\* "Quadratic voting logic" (lib.rs 355-357, 480-493): the votes a voter
\* holds on a proposal after committing `tokens` more.
quadratic_votes_linear(aye_votes, tokens) == aye_votes + tokens

quadratic_votes(aye_votes, tokens) == aye_votes + integer_sqrt(tokens)

(***************************************************************************)
(* Outcomes of a call body.                                                *)
(***************************************************************************)
Ok(s, ev) == [res |-> "Ok", st |-> s, ev |-> ev]
Err(e, s, ev) == [res |-> e, st |-> s, ev |-> ev]
Panic(s, ev) == [res |-> "panic", st |-> s, ev |-> ev]

(***************************************************************************)
(* T::Currency, as far as the pallet uses it: a ledger with a free and a   *)
(* reserved balance per account.                                           *)
(***************************************************************************)
make_free_balance_add(s, who, value) ==
    [s EXCEPT !.free = [@ EXCEPT ![who] = @ + value]]

make_free_balance_be(s, who, value) ==
    [s EXCEPT !.free = [@ EXCEPT ![who] = value]]

\* register_voter with the fee checks ahead of the registration check.
register_voter_fee_first(s, origin, voter_id, fee) ==
    IF origin.kind # "Root" THEN Err("BadOrigin", s, <<>>)
    ELSE IF ~(fee > 0) THEN Err("InsufficientFee", s, <<>>)
    ELSE IF fee > InitialBalanceWithoutFee
    THEN Err("SubstractionOverflow", s, <<>>)
    ELSE IF is_voter_registered(s, voter_id)
    THEN Err("VoterAlreadyRegistered", s, <<>>)
    ELSE LET initial_balance == InitialBalanceWithoutFee - fee
             s1 == make_free_balance_be(s, voter_id, initial_balance)
             s2 == [s1 EXCEPT !.voters = @ \cup {voter_id}]
         IN  Ok(s2, <<<<"VoterRegistered", voter_id, initial_balance>>>>)

(***************************************************************************)
(* register_voter (lib.rs 171-194).                                        *)
(***************************************************************************)
register_voter(s, origin, voter_id, fee) ==
    IF origin.kind # "Root" THEN Err("BadOrigin", s, <<>>)
    ELSE IF is_voter_registered(s, voter_id)
    THEN Err("VoterAlreadyRegistered", s, <<>>)
    ELSE IF ~(fee > 0) THEN Err("InsufficientFee", s, <<>>)
    ELSE IF fee > InitialBalanceWithoutFee
    THEN Err("SubstractionOverflow", s, <<>>)
    ELSE LET initial_balance == InitialBalanceWithoutFee - fee
             s1 == make_free_balance_be(s, voter_id, initial_balance)
             s2 == [s1 EXCEPT !.voters = @ \cup {voter_id}]
         IN  Ok(s2, <<<<"VoterRegistered", voter_id, initial_balance>>>>)

\* create_proposal taking the count itself as the new index.
create_proposal_count_as_index(s, origin, text, now) ==
    IF origin.kind # "Signed" THEN Err("BadOrigin", s, <<>>)
    ELSE IF ~is_voter_registered(s, origin.who)
    THEN Err("NotRegisteredVoter", s, <<>>)
    ELSE LET proposal_index == Cardinality(DOMAIN s.props)
             end_block == now + VotingPeriod
             proposal == [proposal_index |-> proposal_index, text |-> text,
                          proposer |-> origin.who, end_block |-> end_block,
                          status |-> "NotStarted"]
             s1 == [s EXCEPT !.props =
                       [i \in DOMAIN @ \cup {proposal_index} |->
                           IF i = proposal_index THEN proposal ELSE @[i]]]
         IN  Ok(s1, <<<<"NewProposalCreated", proposal_index, text, end_block>>>>)

(***************************************************************************)
(* create_proposal (lib.rs 208-227).                                       *)
(***************************************************************************)
create_proposal(s, origin, text, now) ==
    IF origin.kind # "Signed" THEN Err("BadOrigin", s, <<>>)
    ELSE IF ~is_voter_registered(s, origin.who)
    THEN Err("NotRegisteredVoter", s, <<>>)
    ELSE LET proposal_index == Cardinality(DOMAIN s.props) + 1
             end_block == now + VotingPeriod
             proposal == [proposal_index |-> proposal_index, text |-> text,
                          proposer |-> origin.who, end_block |-> end_block,
                          status |-> "NotStarted"]
             s1 == [s EXCEPT !.props =
                       [i \in DOMAIN @ \cup {proposal_index} |->
                           IF i = proposal_index THEN proposal ELSE @[i]]]
         IN  Ok(s1, <<<<"NewProposalCreated", proposal_index, text, end_block>>>>)

\* start_proposal with the balance check after the status and fee checks.
start_proposal_balance_last(s, origin, proposal_index, fee) ==
    IF origin.kind # "Signed" THEN Err("BadOrigin", s, <<>>)
    ELSE IF ~is_voter_registered(s, origin.who)
    THEN Err("NotRegisteredVoter", s, <<>>)
    ELSE IF ~is_proposal_registered(s, proposal_index)
    THEN Err("ProposalNotFound", s, <<>>)
    ELSE LET who == origin.who
             balance == get_voter_balance(s, who)
         IN  IF s.props[proposal_index].status # "NotStarted"
             THEN Err("ProposalAlreadyStarted", s, <<>>)
             ELSE IF ~(fee > 0) THEN Err("InsufficientFee", s, <<>>)
             ELSE IF ~(balance >= fee) THEN Err("NotEnoughBalance", s, <<>>)
             ELSE LET s1 == [s EXCEPT !.props = [@ EXCEPT ![proposal_index] =
                                        [@ EXCEPT !.status = "InProgress"]]]
                      s2 == [s1 EXCEPT !.free = [@ EXCEPT ![who] = balance - fee]]
                  IN  Ok(s2, <<<<"ProposalStarted", proposal_index>>>>)

\* start_proposal handing the fee to the proposer.
start_proposal_pays_proposer(s, origin, proposal_index, fee) ==
    IF origin.kind # "Signed" THEN Err("BadOrigin", s, <<>>)
    ELSE IF ~is_voter_registered(s, origin.who)
    THEN Err("NotRegisteredVoter", s, <<>>)
    ELSE IF ~is_proposal_registered(s, proposal_index)
    THEN Err("ProposalNotFound", s, <<>>)
    ELSE LET who == origin.who
             balance == get_voter_balance(s, who)
         IN  IF ~(balance >= fee) THEN Err("NotEnoughBalance", s, <<>>)
             ELSE IF s.props[proposal_index].status # "NotStarted"
             THEN Err("ProposalAlreadyStarted", s, <<>>)
             ELSE IF ~(fee > 0) THEN Err("InsufficientFee", s, <<>>)
             ELSE LET s1 == [s EXCEPT !.props = [@ EXCEPT ![proposal_index] =
                                        [@ EXCEPT !.status = "InProgress"]]]
                      s2 == [s1 EXCEPT !.free = [@ EXCEPT ![who] = balance - fee]]
                      s3 == [s2 EXCEPT !.free = [@ EXCEPT
                                ![s.props[proposal_index].proposer] = @ + fee]]
                  IN  Ok(s3, <<<<"ProposalStarted", proposal_index>>>>)

(***************************************************************************)
(* start_proposal (lib.rs 242-276).                                        *)
(***************************************************************************)
start_proposal(s, origin, proposal_index, fee) ==
    IF origin.kind # "Signed" THEN Err("BadOrigin", s, <<>>)
    ELSE IF ~is_voter_registered(s, origin.who)
    THEN Err("NotRegisteredVoter", s, <<>>)
    ELSE IF ~is_proposal_registered(s, proposal_index)
    THEN Err("ProposalNotFound", s, <<>>)
    ELSE LET who == origin.who
             balance == get_voter_balance(s, who)
         IN  IF ~(balance >= fee) THEN Err("NotEnoughBalance", s, <<>>)
             ELSE IF s.props[proposal_index].status # "NotStarted"
             THEN Err("ProposalAlreadyStarted", s, <<>>)
             ELSE IF ~(fee > 0) THEN Err("InsufficientFee", s, <<>>)
             ELSE LET s1 == [s EXCEPT !.props = [@ EXCEPT ![proposal_index] =
                                        [@ EXCEPT !.status = "InProgress"]]]
                      s2 == [s1 EXCEPT !.free = [@ EXCEPT ![who] = balance - fee]]
                  IN  Ok(s2, <<<<"ProposalStarted", proposal_index>>>>)

(***************************************************************************)
(* reserve_tokens (lib.rs 292-305).  Currency::reserve moves the amount    *)
(* from free to reserved and fails when the free balance is too small.     *)
(***************************************************************************)
reserve_tokens(s, origin, amount) ==
    IF origin.kind # "Signed" THEN Err("BadOrigin", s, <<>>)
    ELSE IF ~is_voter_registered(s, origin.who)
    THEN Err("NotRegisteredVoter", s, <<>>)
    ELSE IF ~(amount > 0) THEN Err("InvalidTokensAmountToReserve", s, <<>>)
    ELSE LET who == origin.who
             voter_balance == get_voter_balance(s, who)
         IN  IF ~(voter_balance >= amount) THEN Err("NotEnoughBalance", s, <<>>)
             ELSE IF s.free[who] < amount THEN Err("InsufficientBalance", s, <<>>)
             ELSE LET s1 == [s EXCEPT !.free = [@ EXCEPT ![who] = @ - amount],
                                      !.reserved = [@ EXCEPT ![who] = @ + amount]]
                  IN  Ok(s1, <<<<"TokensReserved", who, amount>>>>)

\* unreserve_tokens without the slash of amount / 2.
unreserve_tokens_no_penalty(s, origin, amount) ==
    IF origin.kind # "Signed" THEN Err("BadOrigin", s, <<>>)
    ELSE IF ~is_voter_registered(s, origin.who)
    THEN Err("NotRegisteredVoter", s, <<>>)
    ELSE IF ~(amount > 0) THEN Err("InvalidTokensAmountToUnreserve", s, <<>>)
    ELSE LET who == origin.who
         IN  IF ~(s.reserved[who] >= amount)
             THEN Err("NotEnoughReservedTokens", s, <<>>)
             ELSE LET s1 == [s EXCEPT !.free = [@ EXCEPT ![who] = @ + amount],
                                      !.reserved = [@ EXCEPT ![who] = @ - amount]]
                  IN  Ok(s1, <<<<"TokensUnreserved", who, amount,
                                 get_voter_balance(s1, who)>>>>)

(***************************************************************************)
(* unreserve_tokens (lib.rs 387-412).  Currency::unreserve moves the       *)
(* amount back to free; Currency::slash then destroys amount / 2, taken    *)
(* from the free balance first.                                            *)
(***************************************************************************)
unreserve_tokens(s, origin, amount) ==
    IF origin.kind # "Signed" THEN Err("BadOrigin", s, <<>>)
    ELSE IF ~is_voter_registered(s, origin.who)
    THEN Err("NotRegisteredVoter", s, <<>>)
    ELSE IF ~(amount > 0) THEN Err("InvalidTokensAmountToUnreserve", s, <<>>)
    ELSE LET who == origin.who
             reserved_tokens == s.reserved[who]
         IN  IF ~(reserved_tokens >= amount)
             THEN Err("NotEnoughReservedTokens", s, <<>>)
             ELSE LET s1 == [s EXCEPT !.free = [@ EXCEPT ![who] = @ + amount],
                                      !.reserved = [@ EXCEPT ![who] = @ - amount]]
                      \* checked_div(amount, 2) is None only for a zero divisor
                      divisor == 2
                  IN  IF divisor = 0 THEN Err("SlashFailed", s1, <<>>)
                      ELSE LET slash == amount \div divisor
                               from_free == IF slash <= s1.free[who] THEN slash
                                            ELSE s1.free[who]
                               rest == slash - from_free
                               from_reserved == IF rest <= s1.reserved[who] THEN rest
                                                ELSE s1.reserved[who]
                               s2 == [s1 EXCEPT
                                        !.free = [@ EXCEPT ![who] = @ - from_free],
                                        !.reserved = [@ EXCEPT ![who] = @ - from_reserved]]
                               updated_balance == get_voter_balance(s2, who)
                           IN  Ok(s2, <<<<"TokensUnreserved", who, amount,
                                          updated_balance>>>>)

(***************************************************************************)
(* vote_proposal (lib.rs 323-371).  The sum at line 357 is an unchecked    *)
(* `+`: on overflow it traps when the build has overflow checks and wraps  *)
(* otherwise.                                                              *)
(***************************************************************************)
vote_proposal(s, origin, proposal_index, vote, now, overflow_checks) ==
    IF origin.kind # "Signed" THEN Err("BadOrigin", s, <<>>)
    ELSE IF ~is_voter_registered(s, origin.who)
    THEN Err("NotRegisteredVoter", s, <<>>)
    ELSE IF ~is_proposal_registered(s, proposal_index)
    THEN Err("ProposalNotFound", s, <<>>)
    ELSE IF ~is_proposal_active(s, proposal_index)
    THEN Err("ProposalNotActive", s, <<>>)
    ELSE LET who == origin.who
             current_block == now
             proposal_end_block == s.props[proposal_index].end_block
         IN  IF proposal_end_block <= current_block
             THEN LET s1 == update_proposal_status_to_completed(s, proposal_index)
                      winner == get_winner(s1)
                  IN  Ok(s1, <<<<"VotingEnded", winner>>>>)
             ELSE LET reserved_tokens == s.reserved[who]
                  IN  IF ~(reserved_tokens > 0)
                      THEN Err("NotEnoughReservedTokens", s, <<>>)
                      ELSE IF vote # "Aye" THEN Ok(s, <<>>)
                      ELSE IF voter_has_voted(s, proposal_index, who)
                      THEN Err("VoterAlreadyVoted", s, <<>>)
                      ELSE LET aye_votes == get_aye_votes_balance(s, proposal_index, who)
                               sum == quadratic_votes(aye_votes, reserved_tokens)
                               new_aye_votes == sum % (MaxBalance + 1)
                               key == <<proposal_index, who>>
                               s1 == [s EXCEPT !.aye =
                                        [k \in DOMAIN @ \cup {key} |->
                                            IF k = key THEN new_aye_votes ELSE @[k]]]
                               voter_balance == get_voter_balance(s1, who)
                               s2 == [s1 EXCEPT !.free = [@ EXCEPT ![who] = voter_balance]]
                           IN  IF sum > MaxBalance /\ overflow_checks
                               THEN Panic(s, <<>>)
                               ELSE Ok(s2, <<<<"ProposalVoted", proposal_index, vote>>>>)

(***************************************************************************)
(* vote_multiple_proposals (lib.rs 428-512).                               *)
(***************************************************************************)
RECURSIVE SumAmounts(_)
SumAmounts(items) ==
    IF items = <<>> THEN 0 ELSE Head(items).amount + SumAmounts(Tail(items))

ItemIndexesOfAyes(items) ==
    LET ayes == SelectSeq(items, LAMBDA it : it.vote = "Aye")
    IN  [n \in 1 .. Len(ayes) |-> ayes[n].index]

ItemIndexes(items) == [n \in 1 .. Len(items) |-> items[n].index]

\* The loop treating every item as an Aye item.
RECURSIVE VoteLoopAllAye(_, _, _, _, _)
VoteLoopAllAye(s, who, proposals, rest, ev) ==
    IF rest = <<>> THEN Ok(s, ev)
    ELSE LET key == <<Head(rest).index, who>>
             new_aye_votes == quadratic_votes(
                 get_aye_votes_balance(s, Head(rest).index, who), Head(rest).amount)
             s1 == [s EXCEPT !.aye =
                      [k \in DOMAIN @ \cup {key} |->
                          IF k = key THEN new_aye_votes ELSE @[k]]]
             ev2 == Append(ev, <<"ProposalsVoted", ItemIndexes(proposals)>>)
         IN  IF new_aye_votes > MaxBalance
             THEN Err("AdditionOverflow", s, ev)
             ELSE VoteLoopAllAye(s1, who, proposals, Tail(rest), ev2)

\* The for loop of lines 475-509 over the items not yet processed.
RECURSIVE VoteLoop(_, _, _, _, _)
VoteLoop(s, who, proposals, rest, ev) ==
    IF rest = <<>> THEN Ok(s, ev)
    ELSE LET proposal_index == Head(rest).index
             tokens_to_use == Head(rest).amount
             vote == Head(rest).vote
         IN  IF vote # "Aye" THEN VoteLoop(s, who, proposals, Tail(rest), ev)
             ELSE LET aye_votes == get_aye_votes_balance(s, proposal_index, who)
                      new_aye_votes == quadratic_votes(aye_votes, tokens_to_use)
                      key == <<proposal_index, who>>
                      s1 == [s EXCEPT !.aye =
                               [k \in DOMAIN @ \cup {key} |->
                                   IF k = key THEN new_aye_votes ELSE @[k]]]
                      voter_balance == get_voter_balance(s1, who)
                      s2 == [s1 EXCEPT !.free = [@ EXCEPT ![who] = voter_balance]]
                      ev2 == Append(ev, <<"ProposalsVoted", ItemIndexes(proposals)>>)
                  IN  IF new_aye_votes > MaxBalance
                      THEN Err("AdditionOverflow", s, ev)
                      ELSE VoteLoop(s2, who, proposals, Tail(rest), ev2)

vote_multiple_proposals(s, origin, proposals, now, overflow_checks) ==
    IF origin.kind # "Signed" THEN Err("BadOrigin", s, <<>>)
    ELSE IF ~is_voter_registered(s, origin.who)
    THEN Err("NotRegisteredVoter", s, <<>>)
    ELSE IF ~(\A n \in 1 .. Len(proposals) :
                 is_proposal_registered(s, proposals[n].index)
                 /\ is_proposal_active(s, proposals[n].index))
    THEN Err("AtLeastOneProposalNotRegisteredOrNotActive", s, <<>>)
    ELSE LET who == origin.who
             reserved_tokens == s.reserved[who]
             sum == SumAmounts(proposals)
             total_tokens_to_use == sum % (MaxBalance + 1)
         IN  IF sum > MaxBalance /\ overflow_checks THEN Panic(s, <<>>)
             ELSE IF ~(reserved_tokens >= total_tokens_to_use)
             THEN Err("NotEnoughReservedTokens", s, <<>>)
             ELSE IF \E n \in 1 .. Len(proposals) :
                        voter_has_voted(s, proposals[n].index, who)
             THEN Err("VoterAlreadyVoted", s, <<>>)
             ELSE LET current_block == now
                      proposals_are_still_active ==
                          \A n \in 1 .. Len(proposals) :
                              current_block < s.props[proposals[n].index].end_block
                  IN  IF ~proposals_are_still_active
                      THEN LET winner == get_winner(s)
                           IN  IF ~is_proposal_registered(s, winner)
                               THEN Panic(s, <<>>)
                               ELSE Ok(update_proposal_status_to_completed(s, winner),
                                       <<<<"VotingEnded", winner>>>>)
                      ELSE VoteLoop(s, who, proposals, proposals, <<>>)

(***************************************************************************)
(* Dispatch of a call (#[pallet::call]): the body runs in a storage layer  *)
(* that is committed when it returns Ok and discarded when it returns an   *)
(* error; the events are storage too.  A trap aborts the call and nothing  *)
(* of it is kept.                                                          *)
(***************************************************************************)
DispatchKeepsWrites(pre, out) == out

Dispatch(pre, out) ==
    IF out.res = "Ok" THEN out ELSE [res |-> out.res, st |-> pre, ev |-> <<>>]

\* What is remembered of the last call: the operation, the signer of a
\* successful call, the result and the events the call deposited.
NoCall == [op |-> "none", who |-> 0, res |-> "", events |-> <<>>]

Commit(out, op, origin) ==
    \E d \in {Dispatch(Store, out)} :
        /\ RegisteredVoters' = d.st.voters
        /\ Proposals' = d.st.props
        /\ AyeVotes' = d.st.aye
        /\ free' = d.st.free
        /\ reserved' = d.st.reserved
        /\ last' = [op |-> op, who |-> IF d.res = "Ok" THEN origin.who ELSE 0,
                    res |-> d.res, events |-> d.ev]
        /\ UNCHANGED block_number

(***************************************************************************)
(* Inputs of vote_multiple_proposals: every batch of at most MaxBatch      *)
(* items, and the batches that repeat one maximal Aye item MaxRepeat times *)
(* and close with an item of amount MaxRepeat: their amounts sum to        *)
(* MaxRepeat * 2^BalanceBits, which leaves the Balance range.              *)
(***************************************************************************)
Items == {[index |-> p, amount |-> x[1], vote |-> x[2]] :
             p \in 1 .. MaxProposals, x \in BatchItemKinds}

ShortBatches == UNION {[1 .. n -> Items] : n \in 0 .. MaxBatch}

RepeatBatches ==
    {[n \in 1 .. (MaxRepeat + 1) |->
        IF n <= MaxRepeat THEN [index |-> p, amount |-> MaxBalance, vote |-> "Aye"]
        ELSE [index |-> p, amount |-> MaxRepeat, vote |-> "Nay"]] :
     p \in 1 .. MaxProposals}

Batches == ShortBatches \cup RepeatBatches

\* The batches every origin is explored with.
ProbeBatches == {<<>>, <<[index |-> 1, amount |-> 25, vote |-> "Aye"]>>}

\* The builds a batch is explored with: the build only matters when the sum
\* of the amounts leaves the Balance range.
Builds(proposals) ==
    IF SumAmounts(proposals) > MaxBalance THEN BOOLEAN ELSE {FALSE}

(***************************************************************************)
(* The state machine.  Each action takes the sets its inputs are drawn     *)
(* from.                                                                   *)
(***************************************************************************)
Init ==
    /\ RegisteredVoters = {}
    /\ Proposals = <<>>
    /\ AyeVotes = <<>>
    /\ free = GenesisFree
    /\ reserved = [a \in Accounts |-> 0]
    /\ block_number = 1
    /\ last = NoCall

RegisterVoter(voters, fees) ==
    \E origin \in Origins, voter_id \in voters, fee \in fees :
        Commit(register_voter(Store, origin, voter_id, fee), "register_voter", origin)

CreateProposal ==
    /\ Cardinality(DOMAIN Proposals) < MaxProposals
    /\ \E origin \in Origins, text \in Hashes :
        Commit(create_proposal(Store, origin, text, block_number),
               "create_proposal", origin)

StartProposal(fees) ==
    \E origin \in Origins, proposal_index \in ProposalIndexes, fee \in fees :
        Commit(start_proposal(Store, origin, proposal_index, fee),
               "start_proposal", origin)

ReserveTokens(amounts) ==
    \E origin \in Origins, amount \in amounts :
        Commit(reserve_tokens(Store, origin, amount), "reserve_tokens", origin)

UnreserveTokens(amounts) ==
    \E origin \in Origins, amount \in amounts :
        Commit(unreserve_tokens(Store, origin, amount), "unreserve_tokens", origin)

VoteProposal(votes) ==
    \E origin \in Origins, proposal_index \in ProposalIndexes, vote \in votes :
        Commit(vote_proposal(Store, origin, proposal_index, vote, block_number, FALSE),
               "vote_proposal", origin)

VoteMultipleProposals(origins, batches) ==
    \E origin \in origins, proposals \in batches :
        \E overflow_checks \in Builds(proposals) :
            Commit(vote_multiple_proposals(Store, origin, proposals, block_number,
                                           overflow_checks),
                   "vote_multiple_proposals", origin)

\* The host moves to the next block.
NextBlock ==
    /\ block_number < MaxBlock
    /\ block_number' = block_number + 1
    /\ last' = [NoCall EXCEPT !.op = "next_block"]
    /\ UNCHANGED <<RegisteredVoters, Proposals, AyeVotes, free, reserved>>

\* One voter with every operation and every input.
Next ==
    \/ RegisterVoter({1}, RegisterFees)
    \/ CreateProposal
    \/ StartProposal(StartFees)
    \/ ReserveTokens(ReserveAmounts)
    \/ UnreserveTokens(UnreserveAmounts)
    \/ VoteProposal(Votes)
    \/ VoteMultipleProposals({Signed(1)}, Batches)
    \/ VoteMultipleProposals(Origins, ProbeBatches)
    \/ NextBlock

Spec == Init /\ [][Next]_vars

\* Two voters, single votes only.
NextTwo ==
    \/ RegisterVoter(Accounts, {5})
    \/ CreateProposal
    \/ StartProposal({10})
    \/ ReserveTokens({50})
    \/ VoteProposal({"Aye"})
    \/ NextBlock

SpecTwo == Init /\ [][NextTwo]_vars

TypeOK ==
    /\ RegisteredVoters \subseteq Accounts
    /\ \A a \in Accounts : free[a] \in Balances /\ reserved[a] \in Balances
    /\ \A k \in DOMAIN AyeVotes : AyeVotes[k] \in Balances
    /\ block_number \in 1 .. MaxBlock

(***************************************************************************)
(* Vocabulary of the properties.                                           *)
(***************************************************************************)
CallOps == {"register_voter", "create_proposal", "start_proposal", "reserve_tokens",
            "unreserve_tokens", "vote_proposal", "vote_multiple_proposals"}

Tables == <<RegisteredVoters, Proposals, AyeVotes, free, reserved>>

\* The storage after the step, for action formulas.
StoreNext == [voters |-> RegisteredVoters', props |-> Proposals', aye |-> AyeVotes',
              free |-> free', reserved |-> reserved']

\* r is the floor of the square root of n.
IsFloorSqrt(r, n) == r >= 0 /\ r * r <= n /\ (r + 1) * (r + 1) > n

\* The outcome a caller observes for each call from the current state.
CallVoteProposal(who, p, vote) ==
    Dispatch(Store, vote_proposal(Store, Signed(who), p, vote, block_number, FALSE))

CallVoteMultiple(who, proposals, overflow_checks) ==
    Dispatch(Store, vote_multiple_proposals(Store, Signed(who), proposals,
                                            block_number, overflow_checks))

CallRegisterVoter(voter_id, fee) ==
    Dispatch(Store, register_voter(Store, Root, voter_id, fee))

C2_AyeVoteIsSqrtOfReserved ==
    \A who \in RegisteredVoters, p \in DOMAIN Proposals :
        (/\ reserved[who] > 0
         /\ <<p, who>> \notin DOMAIN AyeVotes
         /\ Proposals[p].status = "InProgress"
         /\ block_number < Proposals[p].end_block)
        => LET out == CallVoteProposal(who, p, "Aye")
           IN  /\ out.res = "Ok"
               /\ <<p, who>> \in DOMAIN out.st.aye
               /\ IsFloorSqrt(out.st.aye[<<p, who>>], reserved[who])
               /\ \A k \in DOMAIN AyeVotes :
                      k \in DOMAIN out.st.aye /\ out.st.aye[k] = AyeVotes[k]

\* The caller has just voted Aye on a proposal, holds a record on another
\* proposal too, and the new record is the root of the reserved balance.
C2_Witness ==
    /\ last.op = "vote_proposal"
    /\ last.res = "Ok"
    /\ Len(last.events) = 1
    /\ last.events[1][1] = "ProposalVoted"
    /\ LET p == last.events[1][2]
           who == last.who
       IN  /\ reserved[who] = 70
           /\ AyeVotes[<<p, who>>] = 8
           /\ \E q \in DOMAIN Proposals : q # p /\ <<q, who>> \in DOMAIN AyeVotes

(***************************************************************************)
(* The outcome of every call that can be made from the current state,      *)
(* with the inputs the specifications explore and every account as signer. *)
(***************************************************************************)
Outcomes ==
    {Dispatch(Store, register_voter(Store, o, v, f)) :
        o \in Origins, v \in Accounts, f \in RegisterFees}
    \cup {Dispatch(Store, create_proposal(Store, o, h, block_number)) :
        o \in Origins, h \in Hashes}
    \cup {Dispatch(Store, start_proposal(Store, o, p, f)) :
        o \in Origins, p \in ProposalIndexes, f \in StartFees}
    \cup {Dispatch(Store, reserve_tokens(Store, o, a)) :
        o \in Origins, a \in ReserveAmounts}
    \cup {Dispatch(Store, unreserve_tokens(Store, o, a)) :
        o \in Origins, a \in UnreserveAmounts}
    \cup {Dispatch(Store, vote_proposal(Store, o, p, v, block_number, FALSE)) :
        o \in Origins, p \in ProposalIndexes, v \in Votes}
    \cup UNION {{Dispatch(Store, vote_multiple_proposals(Store, o, b, block_number, oc)) :
                    oc \in Builds(b)} : o \in Origins, b \in Batches}

Lists(proposals, p) == \E n \in 1 .. Len(proposals) : proposals[n].index = p

(***************************************************************************)
(* C3 (as stated).  Once a record exists for (p, v) no call changes it; a  *)
(* later vote_proposal(p, Aye) by v before p's deadline fails with         *)
(* VoterAlreadyVoted, and so does a later vote_multiple_proposals by v     *)
(* that lists p.                                                           *)
(***************************************************************************)
C3_Original ==
    \A k \in DOMAIN AyeVotes :
        LET p == k[1]
            v == k[2]
        IN  /\ \A out \in Outcomes :
                   k \in DOMAIN out.st.aye /\ out.st.aye[k] = AyeVotes[k]
            /\ block_number < Proposals[p].end_block
                   => CallVoteProposal(v, p, "Aye").res = "VoterAlreadyVoted"
            /\ \A b \in Batches : Lists(b, p) =>
                   \A oc \in Builds(b) :
                       CallVoteMultiple(v, b, oc).res = "VoterAlreadyVoted"

(***************************************************************************)
(* C3 (amended).  Once a record exists for (p, v) no call changes or       *)
(* removes it.  A later vote_proposal(p, Aye) by v before p's deadline     *)
(* never succeeds: it fails with ProposalNotActive when p is no longer     *)
(* InProgress, else with NotEnoughReservedTokens when v's reserved balance *)
(* is 0, else with VoterAlreadyVoted.  A later vote_multiple_proposals by  *)
(* v that lists p never succeeds, and fails with VoterAlreadyVoted when    *)
(* every listed proposal is InProgress and v's reserved balance covers the *)
(* sum of the amounts.                                                     *)
(***************************************************************************)
C3_VoteOnce ==
    \A k \in DOMAIN AyeVotes :
        LET p == k[1]
            v == k[2]
            active == Proposals[p].status = "InProgress"
        IN  /\ \A out \in Outcomes :
                   k \in DOMAIN out.st.aye /\ out.st.aye[k] = AyeVotes[k]
            /\ block_number < Proposals[p].end_block
                   => LET r == CallVoteProposal(v, p, "Aye").res
                      IN  r = IF ~active THEN "ProposalNotActive"
                              ELSE IF reserved[v] = 0 THEN "NotEnoughReservedTokens"
                              ELSE "VoterAlreadyVoted"
            /\ \A b \in Batches : Lists(b, p) =>
                   \A oc \in Builds(b) :
                       LET r == CallVoteMultiple(v, b, oc).res
                       IN  /\ r # "Ok"
                           /\ ((\A n \in 1 .. Len(b) :
                                    /\ b[n].index \in DOMAIN Proposals
                                    /\ Proposals[b[n].index].status = "InProgress")
                               /\ reserved[v] >= SumAmounts(b))
                              => r = "VoterAlreadyVoted"

\* A second Aye vote has just been refused while the first record stands.
C3_Witness ==
    /\ last.op \in {"vote_proposal", "vote_multiple_proposals"}
    /\ last.res = "VoterAlreadyVoted"
    /\ \E k \in DOMAIN AyeVotes : AyeVotes[k] = 8

(***************************************************************************)
(* Vocabulary of winner selection.                                         *)
(***************************************************************************)
Total(s, i) == SumVotes(s.aye, {k \in DOMAIN s.aye : k[1] = i})

IsMaximal(s, i) ==
    i \in DOMAIN s.props /\ \A j \in DOMAIN s.props : Total(s, j) <= Total(s, i)

CatchesUp(A, B) ==
    /\ A # B
    /\ Total(Store, A) > 0
    /\ Total(Store, B) < Total(Store, A)
    /\ Total(StoreNext, A) = Total(Store, A)
    /\ Total(StoreNext, B) = Total(Store, A)
    /\ IsMaximal(StoreNext, A)

Overtakes(B) ==
    /\ ~(\A j \in DOMAIN Proposals : j # B => Total(Store, j) < Total(Store, B))
    /\ \A j \in DOMAIN Proposals' : j # B => Total(StoreNext, j) < Total(StoreNext, B)

C6_SingleVoteDeadlinePath ==
    \A who \in RegisteredVoters, p \in DOMAIN Proposals, vote \in Votes :
        (Proposals[p].status = "InProgress" /\ Proposals[p].end_block <= block_number)
        => LET out == CallVoteProposal(who, p, vote)
           IN  /\ out.res = "Ok"
               /\ out.st.props[p].status = "Completed"
               /\ out.ev = <<<<"VotingEnded", get_winner(Store)>>>>
               /\ get_winner(out.st) = get_winner(Store)
               /\ out.st.aye = AyeVotes

\* A vote on the only proposal, past its end block, by a voter who holds a
\* record on it and has no reserved balance left, has just ended the voting.
C6_Witness ==
    /\ last.op = "vote_proposal"
    /\ last.res = "Ok"
    /\ last.events = <<<<"VotingEnded", 1>>>>
    /\ DOMAIN Proposals = {1}
    /\ Proposals[1].status = "Completed"
    /\ <<1, last.who>> \in DOMAIN AyeVotes
    /\ reserved[last.who] = 0

(***************************************************************************)
(* C7.  When a vote_multiple_proposals call passes its checks (registered  *)
(* caller, every listed proposal InProgress, reserved balance covering the *)
(* sum of the amounts, no record yet on a listed proposal) and a listed    *)
(* proposal's end block is not after the current block, the call succeeds, *)
(* the only event is VotingEnded with the winner get_winner selects, no    *)
(* vote record is created or changed, and no proposal changes status but   *)
(* the winner, which becomes Completed.                                    *)
(***************************************************************************)
PassesBatchChecks(who, proposals) ==
    /\ who \in RegisteredVoters
    /\ \A n \in 1 .. Len(proposals) :
           /\ proposals[n].index \in DOMAIN Proposals
           /\ Proposals[proposals[n].index].status = "InProgress"
           /\ <<proposals[n].index, who>> \notin DOMAIN AyeVotes
    /\ SumAmounts(proposals) <= reserved[who]

C7_BatchDeadlinePath ==
    \A who \in Accounts, b \in Batches :
        (/\ PassesBatchChecks(who, b)
         /\ \E n \in 1 .. Len(b) : Proposals[b[n].index].end_block <= block_number)
        => LET out == CallVoteMultiple(who, b, FALSE)
               winner == get_winner(Store)
           IN  /\ out.res = "Ok"
               /\ out.ev = <<<<"VotingEnded", winner>>>>
               /\ out.st.aye = AyeVotes
               /\ winner \in DOMAIN Proposals
               /\ out.st.props[winner].status = "Completed"
               /\ \A j \in DOMAIN Proposals :
                      j # winner => out.st.props[j] = Proposals[j]

(***************************************************************************)
(* C8.  When a proposal listed in a vote_multiple_proposals call of a      *)
(* registered voter does not exist or is not InProgress, the call fails    *)
(* with AtLeastOneProposalNotRegisteredOrNotActive and its body has        *)
(* written nothing, wherever the offending item sits in the list.          *)
(***************************************************************************)
C8_BatchValidationAllOrNothing ==
    \A who \in RegisteredVoters, b \in Batches :
        (\E n \in 1 .. Len(b) :
            \/ b[n].index \notin DOMAIN Proposals
            \/ Proposals[b[n].index].status # "InProgress")
        => \A oc \in Builds(b) :
               LET out == vote_multiple_proposals(Store, Signed(who), b,
                                                  block_number, oc)
               IN  /\ out.res = "AtLeastOneProposalNotRegisteredOrNotActive"
                   /\ out.st = Store
                   /\ out.ev = <<>>

\* A batch has just been refused while one proposal is InProgress and
\* another one is not, and the voter could have paid for the batch.
C8_Witness ==
    /\ last.op = "vote_multiple_proposals"
    /\ last.res = "AtLeastOneProposalNotRegisteredOrNotActive"
    /\ \E p, q \in DOMAIN Proposals :
           /\ Proposals[p].status = "InProgress"
           /\ Proposals[q].status # "InProgress"
    /\ \E who \in RegisteredVoters : reserved[who] >= 50

(***************************************************************************)
(* C9.  For every fee with 0 < fee <= 100 and every account that is not    *)
(* registered, register_voter from Root succeeds, sets the account's free  *)
(* balance to 100 - fee whatever it was, registers the account and         *)
(* deposits VoterRegistered with the account and 100 - fee.                *)
(***************************************************************************)
C9_RegisterSetsBalance ==
    \A voter_id \in Accounts \ RegisteredVoters, fee \in 1 .. InitialBalanceWithoutFee :
        LET out == CallRegisterVoter(voter_id, fee)
        IN  /\ out.res = "Ok"
            /\ out.st.free[voter_id] = InitialBalanceWithoutFee - fee
            /\ out.st.voters = RegisteredVoters \cup {voter_id}
            /\ out.ev = <<<<"VoterRegistered", voter_id, InitialBalanceWithoutFee - fee>>>>

\* Account 1, which held 7 at genesis, has just been registered with fee 5.
C9_Witness ==
    /\ last.op = "register_voter"
    /\ last.events = <<<<"VoterRegistered", 1, 95>>>>
    /\ GenesisFree[1] \notin {0, 95}
    /\ free[1] = 95
    /\ 1 \in RegisteredVoters

(***************************************************************************)
(* C10.  register_voter from Root is refused, its body having written      *)
(* nothing, in three cases checked in this order: the account is already   *)
(* registered (VoterAlreadyRegistered, whatever the fee), the fee is 0     *)
(* (InsufficientFee), the fee is above 100 (SubstractionOverflow).         *)
(***************************************************************************)
C10_RegisterRejections ==
    \A voter_id \in Accounts, fee \in Balances :
        LET out == register_voter(Store, Root, voter_id, fee)
            refused == out.st = Store /\ out.ev = <<>>
        IN  IF voter_id \in RegisteredVoters
            THEN out.res = "VoterAlreadyRegistered" /\ refused
            ELSE IF fee = 0 THEN out.res = "InsufficientFee" /\ refused
            ELSE IF fee > InitialBalanceWithoutFee
            THEN out.res = "SubstractionOverflow" /\ refused
            ELSE out.res = "Ok"

\* A second register_voter for account 1 has just been refused, after the
\* account spent part of its balance, and the balance is what it was.
C10_Witness ==
    /\ last.op = "register_voter"
    /\ last.res = "VoterAlreadyRegistered"
    /\ 1 \in RegisteredVoters
    /\ free[1] + reserved[1] = 85

(***************************************************************************)
(* Vocabulary of the balance claims.                                       *)
(***************************************************************************)
CallReserveTokens(who, amount) ==
    Dispatch(Store, reserve_tokens(Store, Signed(who), amount))

CallUnreserveTokens(who, amount) ==
    Dispatch(Store, unreserve_tokens(Store, Signed(who), amount))

\* Storage t differs from the current one in the balances of `who` at most.
OnlyBalancesOf(who, t) ==
    /\ t.voters = RegisteredVoters
    /\ t.props = Proposals
    /\ t.aye = AyeVotes
    /\ \A a \in Accounts \ {who} : t.free[a] = free[a] /\ t.reserved[a] = reserved[a]

(***************************************************************************)
(* C11.  reserve_tokens(amount) by an unregistered caller fails with       *)
(* NotRegisteredVoter; by a registered voter it fails with                 *)
(* InvalidTokensAmountToReserve for amount = 0 and with NotEnoughBalance   *)
(* for amount above the free balance, and otherwise succeeds, moves amount *)
(* from the free to the reserved balance (their sum unchanged) and         *)
(* deposits TokensReserved with the caller and the amount.                 *)
(***************************************************************************)
C11_ReserveMovesFreeToReserved ==
    \A who \in Accounts, amount \in Balances :
        LET out == CallReserveTokens(who, amount)
        IN  IF who \notin RegisteredVoters THEN out.res = "NotRegisteredVoter"
            ELSE IF amount = 0 THEN out.res = "InvalidTokensAmountToReserve"
            ELSE IF amount > free[who] THEN out.res = "NotEnoughBalance"
            ELSE /\ out.res = "Ok"
                 /\ out.st.free[who] = free[who] - amount
                 /\ out.st.reserved[who] = reserved[who] + amount
                 /\ out.st.free[who] + out.st.reserved[who] = free[who] + reserved[who]
                 /\ OnlyBalancesOf(who, out.st)
                 /\ out.ev = <<<<"TokensReserved", who, amount>>>>

\* Voter 1, registered with fee 5, has just reserved 70 of its 95.
C11_Witness ==
    /\ last.op = "reserve_tokens"
    /\ last.events = <<<<"TokensReserved", 1, 70>>>>
    /\ free[1] = 25
    /\ reserved[1] = 70

(***************************************************************************)
(* C12.  unreserve_tokens(amount) by a registered voter fails with         *)
(* InvalidTokensAmountToUnreserve for amount = 0 and with                  *)
(* NotEnoughReservedTokens for amount above the reserved balance, and      *)
(* otherwise succeeds with reserved' = reserved - amount and               *)
(* free' = free + amount - amount \div 2, the amount \div 2 going to no    *)
(* account, and deposits TokensUnreserved with the caller, the amount and  *)
(* free'.                                                                  *)
(***************************************************************************)
C12_UnreserveBurnsHalf ==
    \A who \in RegisteredVoters, amount \in Balances :
        LET out == CallUnreserveTokens(who, amount)
            updated == free[who] + amount - (amount \div 2)
        IN  IF amount = 0 THEN out.res = "InvalidTokensAmountToUnreserve"
            ELSE IF amount > reserved[who] THEN out.res = "NotEnoughReservedTokens"
            ELSE /\ out.res = "Ok"
                 /\ out.st.reserved[who] = reserved[who] - amount
                 /\ out.st.free[who] = updated
                 /\ OnlyBalancesOf(who, out.st)
                 /\ out.ev = <<<<"TokensUnreserved", who, amount, updated>>>>

\* Voter 1 has just taken back the 70 it had reserved out of 95: 35 are gone.
C12_Witness ==
    /\ last.op = "unreserve_tokens"
    /\ last.events = <<<<"TokensUnreserved", 1, 70, 60>>>>
    /\ free[1] = 60
    /\ reserved[1] = 0

(***************************************************************************)
(* C13.  start_proposal(index, fee) by any registered voter, proposer or   *)
(* not, on an existing NotStarted proposal with 0 < fee <= the caller's    *)
(* free balance succeeds, makes the proposal InProgress and nothing else   *)
(* of it, lowers the caller's free balance by fee, credits no account and  *)
(* deposits ProposalStarted with the index.                                *)
(***************************************************************************)
CallStartProposal(who, p, fee) ==
    Dispatch(Store, start_proposal(Store, Signed(who), p, fee))

C13_AnyVoterStartsProposal ==
    \A who \in RegisteredVoters, p \in DOMAIN Proposals :
        Proposals[p].status = "NotStarted" =>
            \A fee \in 1 .. free[who] :
                LET out == CallStartProposal(who, p, fee)
                IN  /\ out.res = "Ok"
                    /\ out.st.props = [Proposals EXCEPT ![p].status = "InProgress"]
                    /\ out.st.free = [free EXCEPT ![who] = @ - fee]
                    /\ out.st.reserved = reserved
                    /\ out.st.voters = RegisteredVoters
                    /\ out.st.aye = AyeVotes
                    /\ out.ev = <<<<"ProposalStarted", p>>>>

\* A voter who is not the proposer has just started proposal 1 for a fee of
\* 10 out of 95, and the proposer's balance is what registration gave it.
C13_Witness ==
    /\ last.op = "start_proposal"
    /\ last.events = <<<<"ProposalStarted", 1>>>>
    /\ Proposals[1].status = "InProgress"
    /\ Proposals[1].proposer # last.who
    /\ free[last.who] = 85
    /\ free[Proposals[1].proposer] = 95

(***************************************************************************)
(* C14.  In every reachable state the proposal indexes are exactly         *)
(* 1 .. count and every proposal carries its own index; create_proposal by *)
(* a registered voter adds the proposal count + 1 with status NotStarted   *)
(* and leaves the existing proposals as they are; create_proposal by an    *)
(* unregistered caller fails with NotRegisteredVoter.                      *)
(***************************************************************************)
ProposalCount == Cardinality(DOMAIN Proposals)

C14_IndexesAreOneToCount ==
    /\ DOMAIN Proposals = 1 .. ProposalCount
    /\ \A i \in DOMAIN Proposals : Proposals[i].proposal_index = i
    /\ \A who \in Accounts, text \in Hashes :
           LET out == Dispatch(Store, create_proposal(Store, Signed(who), text,
                                                      block_number))
               new == ProposalCount + 1
           IN  IF who \notin RegisteredVoters
               THEN out.res = "NotRegisteredVoter"
               ELSE /\ out.res = "Ok"
                    /\ DOMAIN out.st.props = 1 .. new
                    /\ out.st.props[new].status = "NotStarted"
                    /\ out.st.props[new].proposal_index = new
                    /\ \A i \in DOMAIN Proposals : out.st.props[i] = Proposals[i]
                    /\ out.ev = <<<<"NewProposalCreated", new, text,
                                    block_number + VotingPeriod>>>>

\* Proposal 2 has just been created after proposal 1 was started.
C14_Witness ==
    /\ last.op = "create_proposal"
    /\ last.res = "Ok"
    /\ DOMAIN Proposals = {1, 2}
    /\ Proposals[2].status = "NotStarted"
    /\ Proposals[1].status = "InProgress"

(***************************************************************************)
(* C15.  Over every step a proposal stays in the table and its status      *)
(* either stays or moves one step forward: from NotStarted to InProgress,  *)
(* and then the call was start_proposal, or from InProgress to Completed,  *)
(* and then the call was vote_proposal or vote_multiple_proposals.  A      *)
(* Completed proposal's status never changes.                              *)
(***************************************************************************)
C15_StatusMovesForward ==
    [][\A p \in DOMAIN Proposals :
          /\ p \in DOMAIN Proposals'
          /\ Proposals'[p].status # Proposals[p].status =>
                \/ /\ Proposals[p].status = "NotStarted"
                   /\ Proposals'[p].status = "InProgress"
                   /\ last'.op = "start_proposal"
                \/ /\ Proposals[p].status = "InProgress"
                   /\ Proposals'[p].status = "Completed"
                   /\ last'.op \in {"vote_proposal", "vote_multiple_proposals"}]_vars

\* Both proposals went from NotStarted to Completed, the last of them by the
\* vote_proposal call just made.
C15_Witness ==
    /\ last.op = "vote_proposal"
    /\ last.events = <<<<"VotingEnded", 2>>>>
    /\ DOMAIN Proposals = {1, 2}
    /\ Proposals[1].status = "Completed"
    /\ Proposals[2].status = "Completed"

(***************************************************************************)
(* C16.  When every proposal listed in a vote_multiple_proposals call of a *)
(* registered voter is InProgress and the sum of the amounts, as a natural *)
(* number, is above the caller's reserved balance, the call fails with     *)
(* NotEnoughReservedTokens, also when the sum is above the largest value   *)
(* of the balance type, whatever the build does on overflow.               *)
(***************************************************************************)
AllListedActive(proposals) ==
    \A n \in 1 .. Len(proposals) :
        /\ proposals[n].index \in DOMAIN Proposals
        /\ Proposals[proposals[n].index].status = "InProgress"

C16_BatchSumIsExact ==
    \A who \in RegisteredVoters, b \in Batches :
        (AllListedActive(b) /\ SumAmounts(b) > reserved[who])
        => \A oc \in Builds(b) :
               CallVoteMultiple(who, b, oc).res = "NotEnoughReservedTokens"

(***************************************************************************)
(* C17.  A vote_proposal call with Nay or Abstain by a registered voter    *)
(* with a reserved balance above 0 on an InProgress proposal whose end     *)
(* block is after the current block succeeds, changes no table and no      *)
(* balance and deposits no event.  In a successful vote_multiple_proposals *)
(* call on proposals whose end blocks are after the current block, the     *)
(* Nay and Abstain items create or change no record and deposit no event:  *)
(* the records created are those of the Aye items, one event is deposited  *)
(* per Aye item, and every existing record is kept.                        *)
(***************************************************************************)
AyeItems(proposals) == {n \in 1 .. Len(proposals) : proposals[n].vote = "Aye"}

C17_NayAndAbstainAreNoOps ==
    \A who \in RegisteredVoters :
        /\ \A p \in DOMAIN Proposals, vote \in {"Nay", "Abstain"} :
               (/\ Proposals[p].status = "InProgress"
                /\ block_number < Proposals[p].end_block
                /\ reserved[who] > 0)
               => LET out == vote_proposal(Store, Signed(who), p, vote,
                                           block_number, FALSE)
                  IN  out.res = "Ok" /\ out.st = Store /\ out.ev = <<>>
        /\ \A b \in Batches :
               LET out == vote_multiple_proposals(Store, Signed(who), b,
                                                  block_number, FALSE)
               IN  (/\ out.res = "Ok"
                    /\ \A n \in 1 .. Len(b) : block_number < Proposals[b[n].index].end_block)
                   => /\ DOMAIN out.st.aye =
                             DOMAIN AyeVotes \cup {<<b[n].index, who>> : n \in AyeItems(b)}
                      /\ \A k \in DOMAIN AyeVotes : out.st.aye[k] = AyeVotes[k]
                      /\ Len(out.ev) = Cardinality(AyeItems(b))
                      /\ out.st.props = Proposals
                      /\ out.st.voters = RegisteredVoters
                      /\ out.st.free = free
                      /\ out.st.reserved = reserved

\* A Nay or Abstain vote has just succeeded on the started, unexpired
\* proposal 1, without an event, and there is still no record at all.
C17_Witness ==
    /\ last.op = "vote_proposal"
    /\ last.res = "Ok"
    /\ last.events = <<>>
    /\ DOMAIN Proposals = {1}
    /\ Proposals[1].status = "InProgress"
    /\ block_number < Proposals[1].end_block
    /\ reserved[1] = 70
    /\ AyeVotes = <<>>

(***************************************************************************)
(* C18.  A call with origin Signed(a) changes neither the free nor the     *)
(* reserved balance, nor a vote record, nor the registration of an account *)
(* other than a; register_voter(voter, fee) changes neither the balances   *)
(* nor the registration of an account other than voter, and no record.     *)
(***************************************************************************)
SignedOutcomes(a) ==
    {Dispatch(Store, create_proposal(Store, Signed(a), h, block_number)) : h \in Hashes}
    \cup {Dispatch(Store, start_proposal(Store, Signed(a), p, f)) :
        p \in ProposalIndexes, f \in StartFees}
    \cup {Dispatch(Store, reserve_tokens(Store, Signed(a), n)) : n \in {0, 50, 70}}
    \cup {Dispatch(Store, unreserve_tokens(Store, Signed(a), n)) : n \in {0, 50, 70}}
    \cup {Dispatch(Store, vote_proposal(Store, Signed(a), p, v, block_number, FALSE)) :
        p \in ProposalIndexes, v \in Votes}
    \cup UNION {{Dispatch(Store, vote_multiple_proposals(Store, Signed(a), b,
                                                         block_number, oc)) :
                    oc \in Builds(b)} : b \in Batches}
    \cup {Dispatch(Store, register_voter(Store, Signed(a), v, f)) :
        v \in Accounts, f \in RegisterFees}

\* Storage t holds for account b what the current storage holds for it.
SameAccount(b, t) ==
    /\ t.free[b] = free[b]
    /\ t.reserved[b] = reserved[b]
    /\ (b \in t.voters) = (b \in RegisteredVoters)
    /\ \A p \in ProposalIndexes :
           /\ (<<p, b>> \in DOMAIN t.aye) = (<<p, b>> \in DOMAIN AyeVotes)
           /\ <<p, b>> \in DOMAIN AyeVotes => t.aye[<<p, b>>] = AyeVotes[<<p, b>>]

C18_CallsActOnTheirSignerOnly ==
    /\ \A a \in Accounts : \A out \in SignedOutcomes(a) :
           \A b \in Accounts \ {a} : SameAccount(b, out.st)
    /\ \A voter_id \in Accounts, fee \in RegisterFees \cup {5} :
           LET out == CallRegisterVoter(voter_id, fee)
           IN  /\ \A b \in Accounts \ {voter_id} : SameAccount(b, out.st)
               /\ out.st.aye = AyeVotes
               /\ out.st.props = Proposals

\* Account 2 has just voted on the proposal that account 1 created, started
\* and voted on, each account holding its own balances and record.
C18_Witness ==
    /\ last.op = "vote_proposal"
    /\ last.who = 2
    /\ last.events = <<<<"ProposalVoted", 1, "Aye">>>>
    /\ Proposals[1].proposer = 1
    /\ DOMAIN AyeVotes = {<<1, 1>>, <<1, 2>>}
    /\ free[1] = 35 /\ reserved[1] = 50
    /\ free[2] = 45 /\ reserved[2] = 50

(***************************************************************************)
(* C19.  In every reachable state a Completed proposal's end block is not  *)
(* after the current block: no call completes a proposal before its own    *)
(* deadline.                                                               *)
(***************************************************************************)
C19_CompletedOnlyAfterDeadline ==
    \A p \in DOMAIN Proposals :
        Proposals[p].status = "Completed" => Proposals[p].end_block <= block_number

(***************************************************************************)
(* C20.  After every successful vote_proposal or vote_multiple_proposals   *)
(* call of a registered voter that names an InProgress proposal p whose    *)
(* end block is not after the current block, p is Completed.               *)
(***************************************************************************)
C20_LazyCompletion ==
    \A who \in RegisteredVoters, p \in DOMAIN Proposals :
        (Proposals[p].status = "InProgress" /\ Proposals[p].end_block <= block_number)
        => /\ \A vote \in Votes :
                  LET out == CallVoteProposal(who, p, vote)
                  IN  out.res = "Ok" => out.st.props[p].status = "Completed"
           /\ \A b \in Batches : Lists(b, p) =>
                  LET out == CallVoteMultiple(who, b, FALSE)
                  IN  out.res = "Ok" => out.st.props[p].status = "Completed"

(***************************************************************************)
(* C21.  No call, from any origin, creates or changes a vote record of a   *)
(* proposal p whose end block is not after the current block or whose      *)
(* status is not InProgress; so p's total does not change from its end     *)
(* block onward, whichever vote operation is used.                         *)
(***************************************************************************)
RecordsOf(s, p) == {k \in DOMAIN s.aye : k[1] = p}

C21_NoRecordAfterDeadline ==
    \A p \in DOMAIN Proposals :
        (Proposals[p].end_block <= block_number \/ Proposals[p].status # "InProgress")
        => \A out \in Outcomes :
               /\ RecordsOf(out.st, p) = RecordsOf(Store, p)
               /\ \A k \in RecordsOf(Store, p) : out.st.aye[k] = AyeVotes[k]
               /\ Total(out.st, p) = Total(Store, p)

\* A vote on proposal 1 after its end block has just ended the voting, and
\* the record written before the end block is what it was.
C21_Witness ==
    /\ last.op \in {"vote_proposal", "vote_multiple_proposals"}
    /\ last.events = <<<<"VotingEnded", 1>>>>
    /\ Proposals[1].end_block <= block_number
    /\ AyeVotes = (<<1, 1>> :> 8)

(***************************************************************************)
(* C22.  Over every step an existing proposal keeps its index, text,       *)
(* proposer and end block (start_proposal and the completion change the    *)
(* status only), and a proposal that appears was created by                *)
(* create_proposal with end block = the current block + VotingPeriod.      *)
(***************************************************************************)
C22_ProposalFieldsAreFixed ==
    [][/\ \A p \in DOMAIN Proposals :
              /\ p \in DOMAIN Proposals'
              /\ Proposals'[p] = [Proposals[p] EXCEPT !.status = Proposals'[p].status]
       /\ \A p \in DOMAIN Proposals' \ DOMAIN Proposals :
              /\ last'.op = "create_proposal"
              /\ Proposals'[p].end_block = block_number + VotingPeriod
              /\ Proposals'[p].proposer = last'.who
              /\ Proposals'[p].proposal_index = p]_vars

\* Proposal 2, created at block 2, has been started and completed and still
\* carries the fields it was created with.
C22_Witness ==
    /\ DOMAIN Proposals = {1, 2}
    /\ Proposals[2] = [proposal_index |-> 2, text |-> "h", proposer |-> 1,
                       end_block |-> 2 + VotingPeriod, status |-> "Completed"]
    /\ last.op = "vote_multiple_proposals"

(***************************************************************************)
(* C23.  The body of a vote_proposal or vote_multiple_proposals call       *)
(* leaves every free and every reserved balance as it was on every path:   *)
(* vote recorded, Nay or Abstain, deadline, error.                         *)
(***************************************************************************)
VoteBodies ==
    {vote_proposal(Store, o, p, v, block_number, FALSE) :
        o \in Origins, p \in ProposalIndexes, v \in Votes}
    \cup UNION {{vote_multiple_proposals(Store, o, b, block_number, oc) :
                    oc \in Builds(b)} : o \in Origins, b \in Batches}

C23_VotingMovesNoTokens ==
    \A out \in VoteBodies : out.st.free = free /\ out.st.reserved = reserved

\* An Aye vote has just been recorded with weight 8 and the voter still has
\* the 70 reserved and the 15 free it had before.
C23_Witness ==
    /\ last.op = "vote_proposal"
    /\ last.events = <<<<"ProposalVoted", 1, "Aye">>>>
    /\ AyeVotes = (<<1, 1>> :> 8)
    /\ DOMAIN Proposals = {1}
    /\ free[1] = 15
    /\ reserved[1] = 70

(***************************************************************************)
(* C24 (as stated).  start_proposal reports the first failing check in the *)
(* order NotRegisteredVoter, ProposalNotFound, ProposalAlreadyStarted,     *)
(* InsufficientFee, NotEnoughBalance: a call on a started proposal with a  *)
(* fee above the free balance fails with ProposalAlreadyStarted, a call    *)
(* with fee 0 on a NotStarted proposal with InsufficientFee.               *)
(***************************************************************************)
C24_Original ==
    \A who \in Accounts, p \in ProposalIndexes, fee \in Balances :
        CallStartProposal(who, p, fee).res =
            IF who \notin RegisteredVoters THEN "NotRegisteredVoter"
            ELSE IF p \notin DOMAIN Proposals THEN "ProposalNotFound"
            ELSE IF Proposals[p].status # "NotStarted" THEN "ProposalAlreadyStarted"
            ELSE IF fee = 0 THEN "InsufficientFee"
            ELSE IF fee > free[who] THEN "NotEnoughBalance"
            ELSE "Ok"

(***************************************************************************)
(* C24 (amended).  start_proposal reports the first failing check in the   *)
(* order NotRegisteredVoter, ProposalNotFound, NotEnoughBalance (fee above *)
(* the free balance), ProposalAlreadyStarted, InsufficientFee (fee = 0):   *)
(* a call on a started proposal with a fee above the free balance fails    *)
(* with NotEnoughBalance, and a call with fee 0 on a NotStarted proposal   *)
(* fails with InsufficientFee.                                             *)
(***************************************************************************)
C24_StartProposalCheckOrder ==
    \A who \in Accounts, p \in ProposalIndexes, fee \in Balances :
        CallStartProposal(who, p, fee).res =
            IF who \notin RegisteredVoters THEN "NotRegisteredVoter"
            ELSE IF p \notin DOMAIN Proposals THEN "ProposalNotFound"
            ELSE IF fee > free[who] THEN "NotEnoughBalance"
            ELSE IF Proposals[p].status # "NotStarted" THEN "ProposalAlreadyStarted"
            ELSE IF fee = 0 THEN "InsufficientFee"
            ELSE "Ok"

\* start_proposal has just failed with NotEnoughBalance although every
\* existing proposal was started already.
C24_Witness ==
    /\ last.op = "start_proposal"
    /\ last.res = "NotEnoughBalance"
    /\ Proposals # <<>>
    /\ \A p \in DOMAIN Proposals : Proposals[p].status # "NotStarted"

(***************************************************************************)
(* C25.  vote_proposal reports in the order NotRegisteredVoter,            *)
(* ProposalNotFound, ProposalNotActive (status NotStarted or Completed),   *)
(* then ends the voting when the end block is not after the current block, *)
(* then NotEnoughReservedTokens (reserved balance 0, for every choice),    *)
(* then VoterAlreadyVoted (Aye with an existing record).                   *)
(***************************************************************************)
C25_VoteProposalCheckOrder ==
    \A who \in Accounts, p \in ProposalIndexes, vote \in Votes :
        LET out == CallVoteProposal(who, p, vote)
        IN  IF who \notin RegisteredVoters THEN out.res = "NotRegisteredVoter"
            ELSE IF p \notin DOMAIN Proposals THEN out.res = "ProposalNotFound"
            ELSE IF Proposals[p].status # "InProgress" THEN out.res = "ProposalNotActive"
            ELSE IF Proposals[p].end_block <= block_number
            THEN out.res = "Ok" /\ out.ev[1][1] = "VotingEnded"
            ELSE IF reserved[who] = 0 THEN out.res = "NotEnoughReservedTokens"
            ELSE IF vote = "Aye" /\ <<p, who>> \in DOMAIN AyeVotes
            THEN out.res = "VoterAlreadyVoted"
            ELSE out.res = "Ok"

\* A vote has just been refused for want of reserved tokens although the
\* voter holds a record on each proposal, proposal 1 being Completed and
\* proposal 2 InProgress and not expired.
C25_Witness ==
    /\ last.op = "vote_proposal"
    /\ last.res = "NotEnoughReservedTokens"
    /\ DOMAIN AyeVotes = {<<1, 1>>, <<2, 1>>}
    /\ reserved[1] = 0
    /\ Proposals[2].status = "InProgress"
    /\ block_number < Proposals[2].end_block
    /\ Proposals[1].status = "Completed"

(***************************************************************************)
(* Vocabulary of the batch claims.                                         *)
(***************************************************************************)
FloorSqrt(n) == CHOOSE r \in 0 .. n : IsFloorSqrt(r, n)

\* The items of a batch that are Aye items naming proposal p.
AyeItemsOn(proposals, p) == {n \in AyeItems(proposals) : proposals[n].index = p}

RECURSIVE SumFloorSqrt(_, _)
SumFloorSqrt(proposals, ns) ==
    IF ns = {} THEN 0
    ELSE LET n == CHOOSE x \in ns : TRUE
         IN  FloorSqrt(proposals[n].amount) + SumFloorSqrt(proposals, ns \ {n})

\* The body of a batch call returned Ok and no listed proposal was expired.
VotedUnexpired(proposals, out) ==
    /\ out.res = "Ok"
    /\ \A n \in 1 .. Len(proposals) :
           block_number < Proposals[proposals[n].index].end_block

(***************************************************************************)
(* C26.  After a successful vote_multiple_proposals in which no listed     *)
(* proposal is expired, the caller's record on every proposal p named by   *)
(* an Aye item is its prior value (0 if absent) plus the sum of            *)
(* floor(sqrt(amount)) over the Aye items naming p, and its record on      *)
(* every other proposal, absent or present, is as before.                  *)
(***************************************************************************)
C26_BatchRecordsAreSumsOfRoots ==
    \A who \in RegisteredVoters, b \in Batches : \A oc \in Builds(b) :
        LET out == vote_multiple_proposals(Store, Signed(who), b, block_number, oc)
        IN  VotedUnexpired(b, out) =>
                \A p \in DOMAIN Proposals :
                    LET k == <<p, who>>
                        prior == IF k \in DOMAIN AyeVotes THEN AyeVotes[k] ELSE 0
                    IN  IF AyeItemsOn(b, p) = {}
                        THEN /\ (k \in DOMAIN out.st.aye) = (k \in DOMAIN AyeVotes)
                             /\ k \in DOMAIN AyeVotes => out.st.aye[k] = AyeVotes[k]
                        ELSE /\ k \in DOMAIN out.st.aye
                             /\ out.st.aye[k] =
                                    prior + SumFloorSqrt(b, AyeItemsOn(b, p))

\* A batch of two Aye items of 25 on proposal 1 has just given the voter,
\* who has 70 reserved, a record of 5 + 5 on it and none on proposal 2.
C26_Witness ==
    /\ last.op = "vote_multiple_proposals"
    /\ last.res = "Ok"
    /\ Len(last.events) = 2
    /\ DOMAIN Proposals = {1, 2}
    /\ AyeVotes = (<<1, 1>> :> 10)
    /\ reserved[1] = 70

(***************************************************************************)
(* C27.  A successful vote_multiple_proposals in which no listed proposal  *)
(* is expired deposits one ProposalsVoted event per Aye item, each with    *)
(* the indexes of all items of the batch in list order, and nothing else:  *)
(* no event when the batch has no Aye item or is empty.                    *)
(***************************************************************************)
C27_OneEventPerAyeItem ==
    \A who \in RegisteredVoters, b \in Batches : \A oc \in Builds(b) :
        LET out == vote_multiple_proposals(Store, Signed(who), b, block_number, oc)
        IN  VotedUnexpired(b, out) =>
                out.ev = [n \in 1 .. Cardinality(AyeItems(b)) |->
                             <<"ProposalsVoted", [m \in 1 .. Len(b) |-> b[m].index]>>]

\* A batch of an Aye item on proposal 1 and a Nay or Abstain item on
\* proposal 2 has just deposited one event that lists both indexes.
C27_Witness ==
    /\ last.op = "vote_multiple_proposals"
    /\ last.events = <<<<"ProposalsVoted", <<1, 2>>>>>>
    /\ DOMAIN AyeVotes = {<<1, 1>>}

(***************************************************************************)
(* C28.  No call from a reachable state panics, in a build without         *)
(* overflow checks included: the index handed to                           *)
(* update_proposal_status_to_completed is always that of an existing       *)
(* proposal, also on the batch deadline path, where it is get_winner().    *)
(***************************************************************************)
C28_NoCallPanics ==
    /\ \A o \in Origins, p \in ProposalIndexes, v \in Votes :
           vote_proposal(Store, o, p, v, block_number, FALSE).res # "panic"
    /\ \A o \in Origins, b \in Batches :
           vote_multiple_proposals(Store, o, b, block_number, FALSE).res # "panic"

(***************************************************************************)
(* C29.  Every VotingEnded event deposited carries the index of an         *)
(* existing proposal, never 0, also when the deadline is reached before    *)
(* any Aye vote was recorded.                                              *)
(***************************************************************************)
C29_WinnerAnnouncedExists ==
    \A n \in 1 .. Len(last.events) :
        last.events[n][1] = "VotingEnded" => last.events[n][2] \in DOMAIN Proposals

(***************************************************************************)
(* C30.  A record written by a vote_multiple_proposals call is at most     *)
(* floor(sqrt(R)), R being the caller's reserved balance at the call,      *)
(* however the batch is composed (the same proposal in several items, an   *)
(* amount split into parts).                                               *)
(***************************************************************************)
C30_BatchWeightIsDampened ==
    \A who \in RegisteredVoters, b \in Batches :
        LET out == CallVoteMultiple(who, b, FALSE)
        IN  out.res = "Ok" =>
                \A k \in DOMAIN out.st.aye \ DOMAIN AyeVotes :
                    out.st.aye[k] <= FloorSqrt(reserved[who])

(***************************************************************************)
(* C31.  Every registered voter has free >= 0, reserved >= 0 and           *)
(* free + reserved <= 100 - the registration fee.  Registration of an      *)
(* account (which holds nothing reserved before) leaves it with            *)
(* free + reserved = 100 - fee; after that no call of any origin raises    *)
(* the voter's free + reserved, reserve_tokens leaves it as it is,         *)
(* start_proposal lowers it by the fee and unreserve_tokens by amount / 2. *)
(***************************************************************************)
Holdings(s, who) == s.free[who] + s.reserved[who]

\* The fees with which register_voter succeeds in the specification.
AcceptedRegisterFees == {f \in RegisterFees : 0 < f /\ f <= InitialBalanceWithoutFee}

C31_HoldingsNeverGrow ==
    /\ \A a \in Accounts \ RegisteredVoters :
           /\ reserved[a] = 0
           /\ \A fee \in 1 .. InitialBalanceWithoutFee :
                  Holdings(CallRegisterVoter(a, fee).st, a) = InitialBalanceWithoutFee - fee
    /\ \A v \in RegisteredVoters :
           /\ free[v] >= 0
           /\ reserved[v] >= 0
           /\ \E fee \in AcceptedRegisterFees :
                  Holdings(Store, v) <= InitialBalanceWithoutFee - fee
           /\ \A out \in Outcomes :
                  /\ Holdings(out.st, v) <= Holdings(Store, v)
                  /\ out.st.free[v] >= 0
                  /\ out.st.reserved[v] >= 0
           /\ \A amount \in Balances :
                  /\ Holdings(CallReserveTokens(v, amount).st, v) = Holdings(Store, v)
                  /\ LET out == CallUnreserveTokens(v, amount)
                     IN  out.res = "Ok" =>
                             Holdings(out.st, v) = Holdings(Store, v) - (amount \div 2)
           /\ \A p \in ProposalIndexes, fee \in Balances :
                  LET out == CallStartProposal(v, p, fee)
                  IN  out.res = "Ok" => Holdings(out.st, v) = Holdings(Store, v) - fee

\* Voter 1, registered with fee 5, started a proposal for 10, reserved 70
\* and has just unreserved them: 95 - 10 - 35 = 50 are left.
C31_Witness ==
    /\ last.op = "unreserve_tokens"
    /\ last.events = <<<<"TokensUnreserved", 1, 70, 50>>>>
    /\ free[1] + reserved[1] = 50
    /\ \E p \in DOMAIN Proposals : Proposals[p].status # "NotStarted"

(***************************************************************************)
(* C32.  Every stored vote record has weight >= 1: no record of weight 0   *)
(* exists, which would make voter_has_voted true for a voter who           *)
(* contributed nothing.                                                    *)
(***************************************************************************)
C32_NoZeroWeightRecord ==
    \A k \in DOMAIN AyeVotes : AyeVotes[k] >= 1

(***************************************************************************)
(* Completion under fairness.  The clock can advance VotingPeriod blocks   *)
(* beyond the last block at which a proposal can be created, so that every *)
(* proposal's end block is reached; registered voters call vote_proposal.  *)
(***************************************************************************)
LastBlock == MaxBlock + VotingPeriod

AdvanceClock ==
    /\ block_number < LastBlock
    /\ block_number' = block_number + 1
    /\ last' = [NoCall EXCEPT !.op = "next_block"]
    /\ UNCHANGED <<RegisteredVoters, Proposals, AyeVotes, free, reserved>>

CreateProposalInTime ==
    /\ block_number <= MaxBlock
    /\ CreateProposal

\* A vote_proposal call of a registered voter on proposal p.
VoteOn(p) ==
    \E who \in RegisteredVoters, vote \in Votes :
        Commit(vote_proposal(Store, Signed(who), p, vote, block_number, FALSE),
               "vote_proposal", Signed(who))

NextLive ==
    \/ RegisterVoter({1}, {5})
    \/ CreateProposalInTime
    \/ StartProposal({10})
    \/ ReserveTokens({70})
    \/ \E p \in 1 .. MaxProposals : VoteOn(p)
    \/ VoteMultipleProposals({Signed(1)}, ProbeBatches)
    \/ AdvanceClock

SpecLive ==
    /\ Init
    /\ [][NextLive]_vars
    /\ WF_vars(AdvanceClock)
    /\ \A p \in 1 .. MaxProposals : WF_vars(VoteOn(p))

(***************************************************************************)
(* C33.  When the clock keeps advancing and vote_proposal calls of         *)
(* registered voters on every proposal keep being made, every proposal     *)
(* that is InProgress is eventually Completed.                             *)
(***************************************************************************)
C33_StartedProposalsComplete ==
    \A p \in 1 .. MaxProposals :
        (p \in DOMAIN Proposals /\ Proposals[p].status = "InProgress")
            ~> (p \in DOMAIN Proposals /\ Proposals[p].status = "Completed")

\* The proposal created at the last block at which one can be created has
\* just been completed by a vote of a voter with no reserved balance.
C33_Witness ==
    /\ last.op = "vote_proposal"
    /\ last.res = "Ok"
    /\ \E p \in DOMAIN Proposals :
           /\ Proposals[p].end_block = LastBlock
           /\ Proposals[p].status = "Completed"
    /\ AyeVotes = <<>>
    /\ reserved[last.who] = 0

====
